---- MODULE Spec2Model ----
(***************************************************************************)
(* Model of the question-classification and tool-dispatch pipeline of      *)
(* src/src/openai-cosmosdb/openai-model.py and of the record store of      *)
(* src/src/openai-cosmosdb/agrodata.py.                                    *)
(*                                                                         *)
(* Strings whose characters matter (pest names, classes) are sequences of  *)
(* one-character strings, so that lower-casing, splitting, joining and     *)
(* substring matching are computed and not assumed.                        *)
(***************************************************************************)
EXTENDS Integers, Sequences, FiniteSets, TLC

(***************************************************************************)
(* Bounds of the model.                                                    *)
(***************************************************************************)
\* largest number of stored formulated products
MaxRecords == 9
\* largest number of tool calls in one 'requires action' event
MaxCalls == 2
\* largest number of 'requires action' events raised by one run
MaxEvents == 2
\* seeds of the pseudo-random generator used by Series.sample: 0..MaxSeed
MaxSeed == 1
\* formulated products of the store that has more of them than a query returns
LargeStore == 1001
\* records of a source file of the ingestion script
MaxSource == 3
\* completed runs of the ingestion script
MaxRuns == 3
\* runs of the ingestion script that are interrupted
MaxInterrupts == 1

(***************************************************************************)
(* Program constants.                                                      *)
(***************************************************************************)
\* df['MARCA_COMERCIAL'].sample(5)
SampleSize == 5
\* OFFSET 0 LIMIT 1000
QueryLimit == 1000
\* the three questions of the script
NumQuestions == 3

(***************************************************************************)
(* Results of calls that may raise.                                        *)
(***************************************************************************)
Ok(v) == [ok |-> TRUE, value |-> v]

Raise(e) == [ok |-> FALSE, error |-> e]

(***************************************************************************)
(* Strings.                                                                *)
(***************************************************************************)
\* str.lower() on the characters the model uses
Lower(s) ==
  [i \in 1..Len(s) |-> IF s[i] = "F" THEN "f"
                       ELSE IF s[i] = "P" THEN "p"
                       ELSE IF s[i] = "H" THEN "h"
                       ELSE s[i]]

\* str.split(sep) with an explicit one-character separator: empty pieces kept
RECURSIVE Split(_, _)
Split(s, sep) ==
  IF \A i \in 1..Len(s) : s[i] /= sep
  THEN <<s>>
  ELSE LET j == CHOOSE i \in 1..Len(s) :
                  s[i] = sep /\ \A h \in 1..(i-1) : s[h] /= sep
       IN  <<SubSeq(s, 1, j-1)>> \o Split(SubSeq(s, j+1, Len(s)), sep)

\* sep.join(parts)
RECURSIVE Join(_, _)
Join(parts, sep) ==
  IF Len(parts) = 0 THEN <<>>
  ELSE IF Len(parts) = 1 THEN parts[1]
  ELSE parts[1] \o <<sep>> \o Join(Tail(parts), sep)

\* a normalisation that keeps the case of the name
NormalizeKeepCase(common_name) == Join(Split(common_name, " "), "-")

\* '-'.join(common_name.lower().split(' '))
Normalize(common_name) == Join(Split(Lower(common_name), " "), "-")

\* SQL  field LIKE '%value%'  (case-sensitive substring; the model's
\* alphabet has no LIKE wildcard and no quote)
Like(field, value) ==
  \E i \in 0..(Len(field) - Len(value)) :
     SubSeq(field, i+1, i+Len(value)) = value

(***************************************************************************)
(* The document store.                                                     *)
(***************************************************************************)
InternalColumns == {"id", "_rid", "_self", "_etag", "_attachments", "_ts"}

FormulatedColumns ==
  {"MARCA_COMERCIAL", "CLASSE", "PRAGA_NOME_CIENTIFICO", "PRAGA_NOME_COMUM"}

TechnicalColumns ==
  {"PRODUTO_TECNICO_MARCA_COMERCIAL", "CLASSE",
   "CLASSIFICACAO_TOXICOLOGICA", "CLASSIFICACAO_AMBIENTAL"}

\* the i-th stored formulated product (load_json_to_cosmos gives each item
\* its own id).  Items 1 and 2 are the same product loaded twice; every
\* fourth item is about another pest.
FormulatedItem(i) ==
  [c \in FormulatedColumns \cup InternalColumns |->
     CASE c = "MARCA_COMERCIAL" -> IF i = 2 THEN 1 ELSE i
       [] c = "CLASSE" -> IF i % 2 = 0 THEN <<"H">> ELSE <<"F", "H">>
       [] c = "PRAGA_NOME_CIENTIFICO" ->
            IF i % 4 = 0 THEN <<"z", " ", "a">> ELSE <<"H", " ", "a">>
       [] c = "PRAGA_NOME_COMUM" ->
            IF i % 4 = 0 THEN <<"z">> ELSE <<"f", "-", "p">>
       [] OTHER -> i]

\* the i-th stored technical product; items 1 and 2 are the same product
TechnicalItem(i) ==
  [c \in TechnicalColumns \cup InternalColumns |->
     CASE c = "PRODUTO_TECNICO_MARCA_COMERCIAL" -> IF i = 2 THEN 1 ELSE i
       [] c = "CLASSE" -> IF i % 2 = 0 THEN <<"H">> ELSE <<"F", "H">>
       [] c = "CLASSIFICACAO_TOXICOLOGICA" ->
            IF i % 3 = 0 THEN <<"a", "a">> ELSE <<"a">>
       [] c = "CLASSIFICACAO_AMBIENTAL" ->
            IF i % 3 = 0 THEN <<"a">> ELSE <<"a", "a">>
       [] OTHER -> i]

\* the database after ingestion of n formulated and m technical products
Database(up, n, m) ==
  [reachable |-> up,
   produtosformulados |-> [i \in 1..n |-> FormulatedItem(i)],
   produtostecnicos |-> [i \in 1..m |-> TechnicalItem(i)]]

\* the first n elements of a sequence
Take(s, n) == IF Len(s) <= n THEN s ELSE SubSeq(s, 1, n)

\* a store that ignores the LIMIT clause
query_items_unlimited(db, container, column, exact, value, limit) ==
  LET hit(it) == IF exact THEN it[column] = value ELSE Like(it[column], value)
  IN  SelectSeq(db[container], hit)

\* container.query_items(query): the items of the container that satisfy the
\* WHERE clause, in stored order; limit = 0 stands for a query with no LIMIT
query_items(db, container, column, exact, value, limit) ==
  LET hit(it) == IF exact THEN it[column] = value ELSE Like(it[column], value)
      all == SelectSeq(db[container], hit)
  IN  IF limit = 0 THEN all ELSE Take(all, limit)

(***************************************************************************)
(* pandas data frames: a set of columns and a sequence of rows, each row a *)
(* function on the columns.                                                *)
(***************************************************************************)
\* pd.DataFrame(items): a frame of no items has no column
DataFrame(items) ==
  IF Len(items) = 0 THEN [columns |-> {}, rows |-> <<>>]
  ELSE [columns |-> DOMAIN items[1], rows |-> items]

\* result.drop(columns=cols)
DropColumns(df, cols) ==
  [columns |-> df.columns \ cols,
   rows |-> [i \in 1..Len(df.rows) |->
               [c \in df.columns \ cols |-> df.rows[i][c]]]]

\* a concatenation that puts the later frame first
ConcatReversed(a, b) ==
  [columns |-> a.columns \cup b.columns, rows |-> b.rows \o a.rows]

\* pd.concat([a, b]) of frames whose non-empty members have the same columns
Concat(a, b) ==
  [columns |-> a.columns \cup b.columns, rows |-> a.rows \o b.rows]

\* the rows of df that differ on the columns of subset from every earlier row
KeepFirst(df, subset) ==
  LET same(i, j) == \A c \in subset : df.rows[i][c] = df.rows[j][c]
      keep == {i \in 1..Len(df.rows) : \A j \in 1..(i-1) : ~same(j, i)}
      numbered == [i \in 1..Len(df.rows) |-> <<i, df.rows[i]>>]
      kept == SelectSeq(numbered, LAMBDA p : p[1] \in keep)
  IN  [columns |-> df.columns, rows |-> [i \in 1..Len(kept) |-> kept[i][2]]]

\* df.drop_duplicates(subset=subset): an empty frame is returned as it is;
\* otherwise KeyError when a column of subset is missing
drop_duplicates_subset(df, subset) ==
  IF Len(df.rows) = 0 \/ df.columns = {} THEN Ok(df)
  ELSE IF ~(subset \subseteq df.columns) THEN Raise("KeyError")
  ELSE Ok(KeepFirst(df, subset))

\* df[column]: the values of the column in row order; KeyError when the
\* frame has no such column
Column(df, column) ==
  IF column \notin df.columns THEN Raise("KeyError")
  ELSE Ok([i \in 1..Len(df.rows) |-> df.rows[i][column]])

\* a drop_duplicates that removes nothing
drop_duplicates_skipped(df) == df

\* df.drop_duplicates(): rows equal on every column, first occurrence kept
drop_duplicates(df) == KeepFirst(df, df.columns)

(***************************************************************************)
(* AgroDatabase: single-value queries.  Each returns Ok(frame) or raises   *)
(* when the store cannot be reached.                                       *)
(***************************************************************************)
\* a result that keeps the columns the store added
AsResultUndropped(items) == DataFrame(items)

\* result = pd.DataFrame(items); the storage-internal columns are dropped
\* unless the frame has no row or no column
AsResult(items) ==
  LET result == DataFrame(items)
  IN  IF ~(Len(result.rows) = 0) /\ ~(Cardinality(result.columns) = 0)
      THEN DropColumns(result, InternalColumns)
      ELSE result

\* one single-value query of a container
SingleQuery(database, container, column, exact, value, limit) ==
  IF ~database.reachable THEN Raise("ConnectivityError")
  ELSE Ok(AsResult(query_items(database, container, column, exact, value, limit)))

get_formulated_products_by_class(database, classe) ==
  SingleQuery(database, "produtosformulados", "CLASSE", FALSE, classe, QueryLimit)

get_formulated_products_by_cientific_prague_name(database, cientific_name) ==
  SingleQuery(database, "produtosformulados", "PRAGA_NOME_CIENTIFICO", FALSE,
              cientific_name, QueryLimit)

get_formulated_products_by_common_prague_name(database, common_name) ==
  SingleQuery(database, "produtosformulados", "PRAGA_NOME_COMUM", FALSE,
              common_name, QueryLimit)

get_technical_products_by_class(database, classe) ==
  SingleQuery(database, "produtostecnicos", "CLASSE", FALSE, classe, 0)

get_technical_products_by_toxicity_classification(database, classification) ==
  SingleQuery(database, "produtostecnicos", "CLASSIFICACAO_TOXICOLOGICA", TRUE,
              classification, 0)

get_technical_products_by_environmental_classification(database, classification) ==
  SingleQuery(database, "produtostecnicos", "CLASSIFICACAO_AMBIENTAL", TRUE,
              classification, 0)

(***************************************************************************)
(* AgroDatabase: multi-value queries.  The loop of the source, given the   *)
(* results of the single-value query for each value in list order:         *)
(*   data = None                                                           *)
(*   for cls in names: data = single(cls) if data is None                  *)
(*                            else pd.concat([data, single(cls)])          *)
(*   data.drop_duplicates(inplace=True); return data                       *)
(* `data` is <<>> for None and <<frame>> otherwise.                        *)
(***************************************************************************)
RECURSIVE ConcatLoop(_, _, _)
ConcatLoop(singles, k, data) ==
  IF k > Len(singles) THEN Ok(data)
  ELSE IF ~singles[k].ok THEN singles[k]
  ELSE IF data = <<>> THEN ConcatLoop(singles, k + 1, <<singles[k].value>>)
  ELSE ConcatLoop(singles, k + 1, <<Concat(data[1], singles[k].value)>>)

\* None.drop_duplicates raises AttributeError
MultiQuery(singles) ==
  LET looped == ConcatLoop(singles, 1, <<>>)
  IN  IF ~looped.ok THEN looped
      ELSE IF looped.value = <<>> THEN Raise("AttributeError")
      ELSE Ok(drop_duplicates(looped.value[1]))

get_formulated_products_by_classes(database, classes) ==
  MultiQuery([i \in 1..Len(classes) |->
                get_formulated_products_by_class(database, classes[i])])

get_formulated_products_by_cientific_prague_names(database, names) ==
  MultiQuery([i \in 1..Len(names) |->
                get_formulated_products_by_cientific_prague_name(database, names[i])])

get_formulated_products_by_common_prague_names(database, names) ==
  MultiQuery([i \in 1..Len(names) |->
                get_formulated_products_by_common_prague_name(database, names[i])])

get_technical_products_by_classes(database, classes) ==
  MultiQuery([i \in 1..Len(classes) |->
                get_technical_products_by_class(database, classes[i])])

get_technical_products_by_toxicity_classifications(database, classes) ==
  MultiQuery([i \in 1..Len(classes) |->
                get_technical_products_by_toxicity_classification(database, classes[i])])

get_technical_products_by_environmental_classifications(database, classes) ==
  MultiQuery([i \in 1..Len(classes) |->
                get_technical_products_by_environmental_classification(database, classes[i])])

(***************************************************************************)
(* The Lookup Service.  A pest-name argument is a str or a list of str:    *)
(* [type |-> "str", value |-> <<name>>] or [type |-> "list", value |->     *)
(* sequence of names].                                                     *)
(***************************************************************************)
StrArg(name) == [type |-> "str", value |-> <<name>>]

ListArg(names) == [type |-> "list", value |-> names]

\* Series.sample(n) under generator state seed: ValueError when the series
\* has fewer than n values; otherwise n values of a permutation of the series
sample(series, n, seed) ==
  IF Len(series) < n THEN Raise("ValueError")
  ELSE Ok([i \in 1..n |-> series[((i - 1 + seed) % Len(series)) + 1]])

\* str(list): the text of the list
str(list) == <<"str", list>>

\* df.drop_duplicates(subset=["MARCA_COMERCIAL"], inplace=True)
\* return str(df['MARCA_COMERCIAL'].sample(5).tolist())
SampleBrands(df, seed) ==
  LET unique == drop_duplicates_subset(df, {"MARCA_COMERCIAL"})
  IN  IF ~unique.ok THEN unique
      ELSE LET series == Column(unique.value, "MARCA_COMERCIAL")
           IN  IF ~series.ok THEN series
               ELSE LET drawn == sample(series.value, SampleSize, seed)
                    IN  IF ~drawn.ok THEN drawn ELSE Ok(str(drawn.value))

\* the frame the common-name lookup samples from
CommonNameFrame(database, common_name) ==
  IF common_name.type = "str"
  THEN get_formulated_products_by_common_prague_name(
         database, Normalize(common_name.value[1]))
  ELSE get_formulated_products_by_common_prague_names(
         database, [k \in 1..Len(common_name.value) |->
                      Normalize(common_name.value[k])])

\* the frame the scientific-name lookup samples from
ScientificNameFrame(database, scientific_name) ==
  IF scientific_name.type = "str"
  THEN get_formulated_products_by_cientific_prague_name(
         database, scientific_name.value[1])
  ELSE get_formulated_products_by_cientific_prague_names(
         database, scientific_name.value)

\* a common-name lookup that finds nothing for a crop other than soja
get_pesticides_filtered_by_crop(database, crop, common_name, seed) ==
  LET df == CommonNameFrame(database, common_name)
  IN  IF ~df.ok THEN df
      ELSE IF crop /= "soja" THEN SampleBrands(DataFrame(<<>>), seed)
      ELSE SampleBrands(df.value, seed)

get_pesticides_by_crop_and_common_name(database, crop, common_name, seed) ==
  LET df == CommonNameFrame(database, common_name)
  IN  IF ~df.ok THEN df ELSE SampleBrands(df.value, seed)

get_pesticides_by_crop_and_scientific_name(database, crop, scientific_name, seed) ==
  LET df == ScientificNameFrame(database, scientific_name)
  IN  IF ~df.ok THEN df ELSE SampleBrands(df.value, seed)

(***************************************************************************)
(* State.                                                                  *)
(***************************************************************************)
VARIABLES
  database,            \* the document store
  rng,                 \* state of the pseudo-random generator
  pc,                  \* position of the script of openai-model.py
  qi,                  \* index of the question the classification loop is at
  labels,              \* messages.data[0] text read for each classified question
  filtered_questions,
  rejected_questions,
  thread,              \* user messages of the main thread
  runs,                \* assistant runs started on the main thread
  answered,            \* questions of threads whose run has finished
  run_status,          \* "none", "in_progress", "requires_action", "completed"
  events,              \* 'requires action' events received
  tool_calls,          \* tool calls of the event being handled
  k,                   \* index of the tool call the handler loop is at
  tool_outputs,        \* the handler's list of outputs
  lookups,             \* Lookup Service calls made for the event being handled
  batch,               \* <<>> or <<the submission the run has not yet consumed>>
  submitted,           \* submit_tool_outputs calls made
  frames,              \* handle_requires_action calls that have not returned
  submissions,         \* the submit_tool_outputs_stream calls, in call order
  error,               \* "none" or the exception that ended the script
  call,                \* direct call of a lookup or store function: <<>> or <<call>>
  ret,                 \* its result: <<>> or <<result>>
  sent,                \* the queries the direct call sent to the store
  after,               \* <<>> or <<the caller's pest-name argument after the call>>
  network,             \* <<>> or <<what the next HTTP request of the API client meets>>
  containers,          \* ids of the containers of the database
  source,              \* number of records of each source file of the ingestion
  loading,             \* <<>> or <<the container load_json_to_cosmos is loading>>
  loaded,              \* records load_json_to_cosmos has created in its loop
  completed,           \* runs of the ingestion script that reached their end
  interrupted,         \* runs of the ingestion script that were interrupted
  next_id              \* the next generated id

scriptVars == <<pc, qi, labels, filtered_questions, rejected_questions, thread>>

runVars == <<runs, answered, run_status, events>>

handlerVars == <<tool_calls, k, tool_outputs, lookups, batch, submitted>>

streamVars == <<frames, submissions>>

ingestVars ==
  <<containers, source, loading, loaded, completed, interrupted, next_id>>

callVars == <<call, ret, sent, after, network>>

vars == <<database, rng, scriptVars, runVars, handlerVars, streamVars, error,
          callVars, ingestVars>>

ContainerNames == {"produtostecnicos", "produtosformulados"}

\* the store as the lookups and the API client find it: ingestion is over
Ingested ==
  /\ containers = ContainerNames
  /\ source = [c \in ContainerNames |-> 0]
  /\ loading = <<>>
  /\ loaded = 0
  /\ completed = 1
  /\ interrupted = 0
  /\ next_id = 1

(***************************************************************************)
(* Inputs.                                                                 *)
(***************************************************************************)
\* sizes of the formulated-products collection the runs start from
StoreSizes == {0, 3, MaxRecords}

\* the stores: reachable with each size, and unreachable
Databases ==
  {Database(TRUE, n, n) : n \in StoreSizes} \cup {Database(FALSE, MaxRecords, MaxRecords)}

\* texts the classifier run may leave as the newest message of its thread
Labels == {"pesticides", "other", "Pesticides."}

COMMON == "pesticide_by_crop_and_common_name"

SCIENTIFIC == "pesticide_by_crop_and_scientific_name"

\* a function name outside the dispatch table
UNKNOWN == "pesticide_by_crop"

\* tool calls the assistant run may emit (the id is given by the position)
ToolCallPool ==
  { [name |-> COMMON, crop |-> "soja",
     pest |-> StrArg(<<"F", " ", "p">>)],
    [name |-> COMMON, crop |-> "soja",
     pest |-> ListArg(<< <<"F", " ", "p">>, <<"z">> >>)],
    [name |-> SCIENTIFIC, crop |-> "cafe",
     pest |-> StrArg(<<"H", " ", "a">>)],
    [name |-> SCIENTIFIC, crop |-> "soja",
     pest |-> StrArg(<<"z">>)],
    [name |-> UNKNOWN, crop |-> "soja",
     pest |-> StrArg(<<"F", " ", "p">>)] }

\* sequences of length 1..n over S
SeqsUpTo(S, n) == UNION {[1..m -> S] : m \in 1..n}

\* the tool calls of one event: pool entries with ids t1, t2, ...
ToolCallLists ==
  {[i \in 1..Len(c) |-> [id |-> i, function |-> c[i]]] : c \in SeqsUpTo(ToolCallPool, MaxCalls)}

(***************************************************************************)
(* Initial state: the script about to classify its first question.         *)
(***************************************************************************)
Init ==
  /\ database \in Databases
  /\ rng \in 0..MaxSeed
  /\ pc = "classify"
  /\ qi = 1
  /\ labels = <<>>
  /\ filtered_questions = <<>>
  /\ rejected_questions = <<>>
  /\ thread = <<>>
  /\ runs = 0
  /\ answered = {}
  /\ run_status = "none"
  /\ events = 0
  /\ tool_calls = <<>>
  /\ k = 1
  /\ tool_outputs = <<>>
  /\ lookups = 0
  /\ batch = <<>>
  /\ submitted = 0
  /\ frames = 0
  /\ submissions = <<>>
  /\ error = "none"
  /\ call = <<>>
  /\ ret = <<>>
  /\ sent = <<>>
  /\ after = <<>>
  /\ network = <<>>
  /\ Ingested

(***************************************************************************)
(* The script: classification loop, main thread, main run.                 *)
(***************************************************************************)
\* a classifier test that discards only the label "other"
AdmitAnyButOther(label) == label /= "other"

\* messages.data[0].content[0].text.value == "pesticides"
Admit(label) == label = "pesticides"

\* one iteration of the classification loop: a fresh thread, one message,
\* one run consumed to its end, the newest message read and compared
Classify ==
  /\ pc = "classify"
  /\ qi <= NumQuestions
  /\ \E label \in Labels :
       /\ labels' = Append(labels, label)
       /\ IF Admit(label)
          THEN /\ filtered_questions' = Append(filtered_questions, qi)
               /\ rejected_questions' = rejected_questions
          ELSE /\ rejected_questions' = Append(rejected_questions, qi)
               /\ filtered_questions' = filtered_questions
  /\ qi' = qi + 1
  /\ UNCHANGED <<pc, thread, database, rng, runVars, handlerVars, error, callVars, ingestVars, streamVars>>

\* the main assistant and thread are created and every filtered question is
\* added to the one thread
CreateThread ==
  /\ pc = "classify"
  /\ qi > NumQuestions
  /\ thread' = filtered_questions
  /\ pc' = "run"
  /\ UNCHANGED <<qi, labels, filtered_questions, rejected_questions,
                 database, rng, runVars, handlerVars, error, callVars, ingestVars, streamVars>>

\* client.beta.threads.runs.stream(..., event_handler=EventHandler())
StartRun ==
  /\ pc = "run"
  /\ run_status = "none"
  /\ run_status' = "in_progress"
  /\ runs' = runs + 1
  /\ UNCHANGED <<answered, events, database, rng, scriptVars, handlerVars,
                 error, callVars, ingestVars, streamVars>>

\* stream.until_done() returns: the run is over and every handler has returned
RunCompleted ==
  /\ pc = "run"
  /\ run_status = "in_progress"
  /\ run_status' = "completed"
  /\ answered' = answered \cup {thread[i] : i \in 1..Len(thread)}
  /\ batch' = <<>>
  /\ frames' = 0
  /\ pc' = "done"
  /\ UNCHANGED <<qi, labels, filtered_questions, rejected_questions, thread,
                 runs, events, tool_calls, k, tool_outputs, lookups, submitted,
                 database, rng, error, callVars, ingestVars, submissions>>

(***************************************************************************)
(* EventHandler.                                                           *)
(***************************************************************************)
\* on_event with event.event == "thread.run.requires_action": the run has
\* consumed what was submitted before and asks for tool outputs;
\* handle_requires_action starts with tool_outputs = []
RequiresAction ==
  /\ pc = "run"
  /\ run_status = "in_progress"
  /\ events < MaxEvents
  /\ \E calls \in ToolCallLists : tool_calls' = calls
  /\ run_status' = "requires_action"
  /\ events' = events + 1
  /\ k' = 1
  /\ tool_outputs' = <<>>
  /\ lookups' = 0
  /\ batch' = <<>>
  /\ frames' = frames + 1
  /\ UNCHANGED <<runs, answered, submitted, database, rng, scriptVars, error,
                 callVars, ingestVars, submissions>>

\* an if/else chain whose last branch is taken by every other name
RouteDefaultsToCommon(name) ==
  IF name = SCIENTIFIC THEN "scientific" ELSE "common"

\* the branch of the if/elif chain a function name takes
Route(name) ==
  IF name = COMMON THEN "common"
  ELSE IF name = SCIENTIFIC THEN "scientific"
  ELSE "skip"

\* a loop that is left after its first iteration
LoopDoneAfterFirst(i, calls) == i > 1

\* the for loop over the tool calls has ended
LoopDone(i, calls) == i > Len(calls)

\* outputs inserted at the front of the list
PrependOutput(outputs, tool, output) ==
  <<[tool_call_id |-> tool.id, output |-> output]>> \o outputs

\* tool_outputs.append({"tool_call_id": tool.id, "output": output})
AppendOutput(outputs, tool, output) ==
  Append(outputs, [tool_call_id |-> tool.id, output |-> output])

\* the lookup a routed tool call invokes
Lookup(route, function) ==
  IF route = "common"
  THEN get_pesticides_by_crop_and_common_name(
         database, function.crop, function.pest, rng)
  ELSE get_pesticides_by_crop_and_scientific_name(
         database, function.crop, function.pest, rng)

\* one iteration of the loop for a tool call of the dispatch table: the
\* lookup's result is appended, or its exception leaves the handler, the
\* stream and the script
ResolveToolCall ==
  /\ pc = "run"
  /\ run_status = "requires_action"
  /\ ~LoopDone(k, tool_calls)
  /\ Route(tool_calls[k].function.name) \in {"common", "scientific"}
  /\ LET tool == tool_calls[k]
         r == Lookup(Route(tool.function.name), tool.function)
     IN  /\ lookups' = lookups + 1
         /\ IF r.ok
            THEN /\ tool_outputs' = AppendOutput(tool_outputs, tool, r.value)
                 /\ k' = k + 1
                 /\ rng' = (rng + 1) % (MaxSeed + 1)
                 /\ UNCHANGED <<pc, error, frames>>
            ELSE /\ error' = r.error
                 /\ pc' = "crashed"
                 /\ frames' = 0
                 /\ UNCHANGED <<tool_outputs, k, rng>>
  /\ UNCHANGED <<qi, labels, filtered_questions, rejected_questions, thread,
                 runVars, tool_calls, batch, submitted, database, callVars, ingestVars, submissions>>

\* one iteration of the loop for a function name no branch matches
SkipToolCall ==
  /\ pc = "run"
  /\ run_status = "requires_action"
  /\ ~LoopDone(k, tool_calls)
  /\ Route(tool_calls[k].function.name) = "skip"
  /\ k' = k + 1
  /\ UNCHANGED <<tool_calls, tool_outputs, lookups, batch, submitted,
                 database, rng, scriptVars, runVars, error, callVars, ingestVars, streamVars>>

\* self.submit_tool_outputs(tool_outputs, run_id): the run resumes and its
\* continuation is streamed by a fresh EventHandler
SubmitToolOutputs ==
  /\ pc = "run"
  /\ run_status = "requires_action"
  /\ LoopDone(k, tool_calls)
  /\ batch' = <<tool_outputs>>
  /\ submitted' = submitted + 1
  /\ submissions' = Append(submissions,
                            [thread_id |-> "main", run_id |-> runs,
                             event |-> events, frame |-> frames])
  /\ run_status' = "in_progress"
  /\ UNCHANGED <<runs, answered, events, tool_calls, k, tool_outputs, lookups,
                 database, rng, scriptVars, error, callVars, ingestVars, frames>>

Next ==
  \/ Classify
  \/ CreateThread
  \/ StartRun
  \/ RequiresAction
  \/ ResolveToolCall
  \/ SkipToolCall
  \/ SubmitToolOutputs
  \/ RunCompleted

Spec == Init /\ [][Next]_vars

(***************************************************************************)
(* Direct calls of the Lookup Service and of the record store, one call    *)
(* per behaviour, with the inputs drawn in the initial state.              *)
(***************************************************************************)
\* pest-name arguments of the direct lookup calls
PestArgs ==
  { StrArg(<<"F", " ", "p">>), StrArg(<<"H", " ", "a">>), StrArg(<<"z">>),
    StrArg(<<"q">>), StrArg(<<>>), StrArg(<<"F", " ", " ", "P">>),
    ListArg(<< <<" ", "H">>, <<"F", " ", "p">> >>),
    ListArg(<<>>), ListArg(<< <<"F", " ", "p">> >>),
    ListArg(<< <<"F", " ", "p">>, <<"z">> >>),
    ListArg(<< <<"H">>, <<"a">> >>),
    ListArg(<< <<"q">> >>) }

LookupCalls ==
  [fn : {COMMON, SCIENTIFIC}, crop : {"soja", "cafe"}, arg : PestArgs]

\* value lists of the direct multi-value queries
ValueLists ==
  { <<>>, << <<"H">> >>, << <<"H">>, <<"F">> >>, << <<"a">>, <<"a", "a">> >>,
    << <<"H", " ", "a">>, <<"a">> >>, << <<"f", "-", "p">>, <<"z">> >>,
    << <<"q">> >>, << <<"q">>, <<"H">> >>, << <<"H">>, <<"H">> >> }

MultiQueryNames ==
  {"get_formulated_products_by_classes",
   "get_formulated_products_by_cientific_prague_names",
   "get_formulated_products_by_common_prague_names",
   "get_technical_products_by_classes",
   "get_technical_products_by_toxicity_classifications",
   "get_technical_products_by_environmental_classifications"}

MultiQueryCalls ==
  [fn : MultiQueryNames, crop : {""}, arg : {ListArg(v) : v \in ValueLists}]

\* the multi-value query of AgroDatabase with the given name
CallMulti(fn, db, values) ==
  CASE fn = "get_formulated_products_by_classes" ->
         get_formulated_products_by_classes(db, values)
    [] fn = "get_formulated_products_by_cientific_prague_names" ->
         get_formulated_products_by_cientific_prague_names(db, values)
    [] fn = "get_formulated_products_by_common_prague_names" ->
         get_formulated_products_by_common_prague_names(db, values)
    [] fn = "get_technical_products_by_classes" ->
         get_technical_products_by_classes(db, values)
    [] fn = "get_technical_products_by_toxicity_classifications" ->
         get_technical_products_by_toxicity_classifications(db, values)
    [] OTHER ->
         get_technical_products_by_environmental_classifications(db, values)

\* values of the direct single-value queries
SingleValues ==
  { <<"H">>, <<"F">>, <<"a">>, <<"a", "a">>, <<"H", " ", "a">>,
    <<"f", "-", "p">>, <<"z">>, <<"q">>, <<>> }

SingleQueryNames ==
  {"get_formulated_products_by_class",
   "get_formulated_products_by_cientific_prague_name",
   "get_formulated_products_by_common_prague_name",
   "get_technical_products_by_class",
   "get_technical_products_by_toxicity_classification",
   "get_technical_products_by_environmental_classification"}

SingleQueryCalls ==
  [fn : SingleQueryNames, crop : {""}, arg : {StrArg(v) : v \in SingleValues}]

\* the single-value query of AgroDatabase with the given name
CallSingle(fn, db, value) ==
  CASE fn = "get_formulated_products_by_class" ->
         get_formulated_products_by_class(db, value)
    [] fn = "get_formulated_products_by_cientific_prague_name" ->
         get_formulated_products_by_cientific_prague_name(db, value)
    [] fn = "get_formulated_products_by_common_prague_name" ->
         get_formulated_products_by_common_prague_name(db, value)
    [] fn = "get_technical_products_by_class" ->
         get_technical_products_by_class(db, value)
    [] fn = "get_technical_products_by_toxicity_classification" ->
         get_technical_products_by_toxicity_classification(db, value)
    [] OTHER ->
         get_technical_products_by_environmental_classification(db, value)

\* the column and the container a store query asks about
QueryColumn(fn) ==
  CASE fn \in {"get_formulated_products_by_class", "get_formulated_products_by_classes",
               "get_technical_products_by_class", "get_technical_products_by_classes"} ->
         "CLASSE"
    [] fn \in {"get_formulated_products_by_cientific_prague_name",
               "get_formulated_products_by_cientific_prague_names"} ->
         "PRAGA_NOME_CIENTIFICO"
    [] fn \in {"get_formulated_products_by_common_prague_name",
               "get_formulated_products_by_common_prague_names"} ->
         "PRAGA_NOME_COMUM"
    [] fn \in {"get_technical_products_by_toxicity_classification",
               "get_technical_products_by_toxicity_classifications"} ->
         "CLASSIFICACAO_TOXICOLOGICA"
    [] OTHER -> "CLASSIFICACAO_AMBIENTAL"

IsFormulatedQuery(fn) ==
  fn \in {"get_formulated_products_by_class", "get_formulated_products_by_classes",
          "get_formulated_products_by_cientific_prague_name",
          "get_formulated_products_by_cientific_prague_names",
          "get_formulated_products_by_common_prague_name",
          "get_formulated_products_by_common_prague_names"}

\* the single-value query a multi-value query calls for each value
SingleOf(fn) ==
  CASE fn = "get_formulated_products_by_classes" ->
         "get_formulated_products_by_class"
    [] fn = "get_formulated_products_by_cientific_prague_names" ->
         "get_formulated_products_by_cientific_prague_name"
    [] fn = "get_formulated_products_by_common_prague_names" ->
         "get_formulated_products_by_common_prague_name"
    [] fn = "get_technical_products_by_classes" ->
         "get_technical_products_by_class"
    [] fn = "get_technical_products_by_toxicity_classifications" ->
         "get_technical_products_by_toxicity_classification"
    [] OTHER ->
         "get_technical_products_by_environmental_classification"

\* query = f"SELECT * FROM c WHERE c.<column> <op> ... [OFFSET 0 LIMIT 1000]"
\* built by a single-value query, with the container it is sent to
QueryText(fn, value) ==
  [container |-> IF IsFormulatedQuery(fn) THEN "produtosformulados"
                 ELSE "produtostecnicos",
   column |-> QueryColumn(fn),
   op |-> IF QueryColumn(fn) \in {"CLASSIFICACAO_TOXICOLOGICA",
                                  "CLASSIFICACAO_AMBIENTAL"}
          THEN "=" ELSE "LIKE",
   value |-> value,
   limit |-> IF IsFormulatedQuery(fn) THEN QueryLimit ELSE 0]

\* the queries a multi-value query hands to container.query_items: one per
\* value in list order, the loop ending at the first query that raises
MultiSent(fn, db, values) ==
  LET n == IF db.reachable THEN Len(values)
           ELSE IF Len(values) = 0 THEN 0 ELSE 1
  IN  [i \in 1..n |-> QueryText(SingleOf(fn), values[i])]

\* the queries a lookup sends: none when create_database_if_not_exists
\* raises; the normalised names for the common-name lookup, the names as
\* given for the scientific-name lookup
LookupSent(fn, db, crop, arg) ==
  IF ~db.reachable THEN <<>>
  ELSE LET single == IF fn = COMMON
                     THEN "get_formulated_products_by_common_prague_name"
                     ELSE "get_formulated_products_by_cientific_prague_name"
           key(i) == IF fn = COMMON THEN Normalize(arg.value[i])
                     ELSE arg.value[i]
       IN  [i \in 1..Len(arg.value) |-> QueryText(single, key(i))]

\* the caller's pest-name argument after a lookup: a str is rebound locally;
\* the elements of a list are overwritten by common_name[k] = ... once the
\* database client has been obtained
ArgAfter(fn, db, arg) ==
  IF fn = COMMON /\ arg.type = "list" /\ db.reachable
  THEN ListArg([i \in 1..Len(arg.value) |-> Normalize(arg.value[i])])
  ELSE arg

DirectInit ==
  /\ database \in Databases
  /\ rng \in 0..MaxSeed
  /\ pc = "direct"
  /\ qi = 1
  /\ labels = <<>>
  /\ filtered_questions = <<>>
  /\ rejected_questions = <<>>
  /\ thread = <<>>
  /\ runs = 0
  /\ answered = {}
  /\ run_status = "none"
  /\ events = 0
  /\ tool_calls = <<>>
  /\ k = 1
  /\ tool_outputs = <<>>
  /\ lookups = 0
  /\ batch = <<>>
  /\ submitted = 0
  /\ frames = 0
  /\ submissions = <<>>
  /\ error = "none"
  /\ call \in {<<c>> : c \in LookupCalls \cup MultiQueryCalls \cup SingleQueryCalls}
  /\ ret = <<>>
  /\ sent = <<>>
  /\ after = <<>>
  /\ network = <<>>
  /\ Ingested

\* get_pesticides_by_crop_and_common_name(crop, common_name)
CallCommonName ==
  /\ pc = "direct"
  /\ ret = <<>>
  /\ call[1].fn = COMMON
  /\ ret' = <<get_pesticides_by_crop_and_common_name(
                database, call[1].crop, call[1].arg, rng)>>
  /\ sent' = LookupSent(COMMON, database, call[1].crop, call[1].arg)
  /\ after' = <<ArgAfter(COMMON, database, call[1].arg)>>
  /\ UNCHANGED <<call, network, ingestVars, database, rng, scriptVars, runVars, handlerVars, streamVars,
                 error>>

\* get_pesticides_by_crop_and_scientific_name(crop, scientific_name)
CallScientificName ==
  /\ pc = "direct"
  /\ ret = <<>>
  /\ call[1].fn = SCIENTIFIC
  /\ ret' = <<get_pesticides_by_crop_and_scientific_name(
                database, call[1].crop, call[1].arg, rng)>>
  /\ sent' = LookupSent(SCIENTIFIC, database, call[1].crop, call[1].arg)
  /\ after' = <<ArgAfter(SCIENTIFIC, database, call[1].arg)>>
  /\ UNCHANGED <<call, network, ingestVars, database, rng, scriptVars, runVars, handlerVars, streamVars,
                 error>>

\* AgroDatabase.get_*_by_classes / get_*_names / get_*_classifications
CallMultiQuery ==
  /\ pc = "direct"
  /\ ret = <<>>
  /\ call[1].fn \in MultiQueryNames
  /\ ret' = <<CallMulti(call[1].fn, database, call[1].arg.value)>>
  /\ sent' = MultiSent(call[1].fn, database, call[1].arg.value)
  /\ after' = <<call[1].arg>>
  /\ UNCHANGED <<call, network, ingestVars, database, rng, scriptVars, runVars, handlerVars, streamVars,
                 error>>

\* AgroDatabase.get_*_by_class / get_*_name / get_*_classification
CallSingleQuery ==
  /\ pc = "direct"
  /\ ret = <<>>
  /\ call[1].fn \in SingleQueryNames
  /\ ret' = <<CallSingle(call[1].fn, database, call[1].arg.value[1])>>
  /\ sent' = <<QueryText(call[1].fn, call[1].arg.value[1])>>
  /\ after' = <<call[1].arg>>
  /\ UNCHANGED <<call, network, ingestVars, database, rng, scriptVars, runVars, handlerVars, streamVars,
                 error>>

DirectNext ==
  \/ CallCommonName
  \/ CallScientificName
  \/ CallMultiQuery
  \/ CallSingleQuery

DirectSpec == DirectInit /\ [][DirectNext]_vars

(***************************************************************************)
(* Substring queries of the formulated-products collection, called on      *)
(* stores with fewer and with more products than a query's LIMIT.          *)
(***************************************************************************)
LimitStores ==
  {Database(TRUE, n, 0) : n \in {3, MaxRecords, LargeStore}}

LimitLists ==
  { << <<"f", "-", "p">>, <<"z">> >>, << <<"H">>, <<"F">> >>, << <<"q">> >> }

LimitCalls ==
  {c \in SingleQueryCalls : IsFormulatedQuery(c.fn)}
    \cup [fn : {f \in MultiQueryNames : IsFormulatedQuery(f)}, crop : {""},
          arg : {ListArg(v) : v \in LimitLists}]

LimitInit ==
  /\ database \in LimitStores
  /\ rng = 0
  /\ pc = "direct"
  /\ qi = 1
  /\ labels = <<>>
  /\ filtered_questions = <<>>
  /\ rejected_questions = <<>>
  /\ thread = <<>>
  /\ runs = 0
  /\ answered = {}
  /\ run_status = "none"
  /\ events = 0
  /\ tool_calls = <<>>
  /\ k = 1
  /\ tool_outputs = <<>>
  /\ lookups = 0
  /\ batch = <<>>
  /\ submitted = 0
  /\ frames = 0
  /\ submissions = <<>>
  /\ error = "none"
  /\ call \in {<<c>> : c \in LimitCalls}
  /\ ret = <<>>
  /\ sent = <<>>
  /\ after = <<>>
  /\ network = <<>>
  /\ Ingested

LimitNext ==
  \/ CallSingleQuery
  \/ CallMultiQuery

LimitSpec == LimitInit /\ [][LimitNext]_vars

(***************************************************************************)
(* The HTTP API client (api_client.py).  A request meets a transport error *)
(* or a response with a status and a body that is JSON or not.             *)
(***************************************************************************)
\* a status check that lets every response through
raise_for_status_never(response) == Ok(response)

\* Response.raise_for_status(): HTTPError for a 4xx or 5xx status
raise_for_status(response) ==
  IF response.status >= 400 /\ response.status < 600 THEN Raise("HTTPError")
  ELSE Ok(response)

\* Response.json(): the parsed body, or JSONDecodeError
json(response) ==
  IF response.json THEN Ok([type |-> "json", body |-> response.body])
  ELSE Raise("JSONDecodeError")

\* requests.get(...) / requests.post(...): the response, or the transport error
request(net) ==
  IF net.type = "error" THEN Raise(net.error) ELSE Ok(net.response)

\* response = requests.get(...); response.raise_for_status();
\* return response.json()
RequestJson(net) ==
  LET response == request(net)
  IN  IF ~response.ok THEN response
      ELSE LET checked == raise_for_status(response.value)
           IN  IF ~checked.ok THEN checked ELSE json(checked.value)

health_check(net) == RequestJson(net)

get_recommendation(net, pest) == RequestJson(net)

get_questions(net, question) == RequestJson(net)

get_registered_products(net, pest) == RequestJson(net)

\* the exceptions  except requests.exceptions.RequestException  catches;
\* JSONDecodeError is one of them in the releases of requests that define
\* requests.exceptions.JSONDecodeError (decodeIsRequestException)
RequestException(decodeIsRequestException) ==
  {"ConnectionError", "Timeout", "HTTPError"}
    \cup (IF decodeIsRequestException THEN {"JSONDecodeError"} ELSE {})

\* return {f"Classify Image Error: {e}"}: a set of one string
classify_image(net, url, decodeIsRequestException) ==
  LET r == RequestJson(net)
  IN  IF r.ok THEN r
      ELSE IF r.error \in RequestException(decodeIsRequestException)
      THEN Ok([type |-> "set",
               items |-> {<<"Classify Image Error: ", r.error>>}])
      ELSE r

\* open(file_path, 'rb') is inside the try, and OSError is not caught;
\* return {"error": f"Failed to classify pest file: {e}"}
classify_pest_file(net, file_path, decodeIsRequestException) ==
  IF ~file_path.exists THEN Raise("FileNotFoundError")
  ELSE LET r == RequestJson(net)
       IN  IF r.ok THEN r
           ELSE IF r.error \in RequestException(decodeIsRequestException)
           THEN Ok([type |-> "dict",
                    error |-> <<"Failed to classify pest file: ", r.error>>])
           ELSE r

Statuses == {200, 201, 300, 304, 404, 500}

\* what a request can meet
Outcomes ==
  {[type |-> "error", error |-> e] : e \in {"ConnectionError", "Timeout"}}
    \cup {[type |-> "response", response |-> r] :
            r \in [status : Statuses, json : BOOLEAN, body : {"b"}]}

RaisingFunctions ==
  {"health_check", "get_recommendation", "get_questions",
   "get_registered_products"}

ClassifyFunctions == {"classify_image", "classify_pest_file"}

\* the calls of the client: the text is the url, pest or question (none for
\* health_check), exists tells whether the file to upload can be opened
ApiCalls ==
  [fn : {"health_check"}, arg : {[text |-> "", exists |-> TRUE]}]
    \cup [fn : (RaisingFunctions \ {"health_check"}) \cup {"classify_image"},
          arg : {[text |-> t, exists |-> TRUE] : t \in {"a", "b"}}]
    \cup [fn : {"classify_pest_file"},
          arg : [text : {"a", "b"}, exists : BOOLEAN]]

ApiInit ==
  /\ database = Database(FALSE, 0, 0)
  /\ rng = 0
  /\ pc = "api"
  /\ qi = 1
  /\ labels = <<>>
  /\ filtered_questions = <<>>
  /\ rejected_questions = <<>>
  /\ thread = <<>>
  /\ runs = 0
  /\ answered = {}
  /\ run_status = "none"
  /\ events = 0
  /\ tool_calls = <<>>
  /\ k = 1
  /\ tool_outputs = <<>>
  /\ lookups = 0
  /\ batch = <<>>
  /\ submitted = 0
  /\ frames = 0
  /\ submissions = <<>>
  /\ error = "none"
  /\ call \in {<<c>> : c \in ApiCalls}
  /\ ret = <<>>
  /\ sent = <<>>
  /\ after = <<>>
  /\ network \in {<<o>> : o \in Outcomes}
  /\ Ingested

\* a call of one of the six functions of the client returns or raises
ApiReturn(fn, result) ==
  /\ pc = "api"
  /\ ret = <<>>
  /\ call[1].fn = fn
  /\ ret' = <<result>>
  /\ UNCHANGED <<call, network, ingestVars, sent, after, database, rng, scriptVars,
                 runVars, handlerVars, streamVars, error>>

CallHealthCheck == ApiReturn("health_check", health_check(network[1]))

CallClassifyImage ==
  \E d \in BOOLEAN :
     ApiReturn("classify_image",
               classify_image(network[1], call[1].arg.text, d))

CallClassifyPestFile ==
  \E d \in BOOLEAN :
     ApiReturn("classify_pest_file",
               classify_pest_file(network[1], call[1].arg, d))

CallGetRecommendation ==
  ApiReturn("get_recommendation",
            get_recommendation(network[1], call[1].arg.text))

CallGetQuestions ==
  ApiReturn("get_questions", get_questions(network[1], call[1].arg.text))

CallGetRegisteredProducts ==
  ApiReturn("get_registered_products",
            get_registered_products(network[1], call[1].arg.text))

ApiNext ==
  \/ CallHealthCheck
  \/ CallClassifyImage
  \/ CallClassifyPestFile
  \/ CallGetRecommendation
  \/ CallGetQuestions
  \/ CallGetRegisteredProducts

ApiSpec == ApiInit /\ [][ApiNext]_vars

(***************************************************************************)
(* The ingestion script (agrodata.py, __main__): for each of the two       *)
(* containers, when the database has no container of that name, the        *)
(* container is created and the records of the source file are loaded one  *)
(* by one.  The script may be interrupted and run again.                   *)
(***************************************************************************)
\* the i-th record of the JSON file csv_to_json writes for a container
JsonRecord(container, i) ==
  IF container = "produtostecnicos"
  THEN [c \in TechnicalColumns |-> TechnicalItem(i)[c]]
  ELSE [c \in FormulatedColumns |-> FormulatedItem(i)[c]]

\* a guard that never finds the container
container_exists_never(names, container_name) == FALSE

\* container_name in [c['id'] for c in database.list_containers()]
container_exists(names, container_name) == container_name \in names

\* database.create_container_if_not_exists(id=container_name, ...)
create_container(names, container_name) == names \cup {container_name}

\* item['id'] = str(uuid.uuid4()); container.create_item(body=item): the
\* stored item, with the fields the store adds
create_item(item, id) ==
  [c \in DOMAIN item \cup InternalColumns |->
     IF c \in InternalColumns THEN id ELSE item[c]]

IngestInit ==
  /\ database = Database(TRUE, 0, 0)
  /\ rng = 0
  /\ pc = "produtostecnicos"
  /\ qi = 1
  /\ labels = <<>>
  /\ filtered_questions = <<>>
  /\ rejected_questions = <<>>
  /\ thread = <<>>
  /\ runs = 0
  /\ answered = {}
  /\ run_status = "none"
  /\ events = 0
  /\ tool_calls = <<>>
  /\ k = 1
  /\ tool_outputs = <<>>
  /\ lookups = 0
  /\ batch = <<>>
  /\ submitted = 0
  /\ frames = 0
  /\ submissions = <<>>
  /\ error = "none"
  /\ call = <<>>
  /\ ret = <<>>
  /\ sent = <<>>
  /\ after = <<>>
  /\ network = <<>>
  /\ containers = {}
  /\ source \in [ContainerNames -> 0..MaxSource]
  /\ loading = <<>>
  /\ loaded = 0
  /\ completed = 0
  /\ interrupted = 0
  /\ next_id = 1

\* where the script goes after the block of a container
AfterBlock(container) ==
  IF container = "produtostecnicos" THEN "produtosformulados" ELSE "queries"

\* if not AgroDatabase.container_exists(database, name): create_container,
\* csv_to_json, and load_json_to_cosmos up to its loop
Guard ==
  /\ pc \in ContainerNames
  /\ IF container_exists(containers, pc)
     THEN /\ pc' = AfterBlock(pc)
          /\ UNCHANGED <<containers, loading>>
     ELSE /\ containers' = create_container(containers, pc)
          /\ loading' = <<pc>>
          /\ pc' = "load"
  /\ loaded' = 0
  /\ UNCHANGED <<database, source, completed, interrupted, next_id, rng, qi,
                 labels, filtered_questions, rejected_questions, thread,
                 runVars, handlerVars, streamVars, error, callVars>>

\* one iteration of the loop of load_json_to_cosmos
LoadItem ==
  /\ pc = "load"
  /\ loaded < source[loading[1]]
  /\ database' =
       [database EXCEPT
          ![loading[1]] =
             Append(@, create_item(JsonRecord(loading[1], loaded + 1),
                                   next_id))]
  /\ loaded' = loaded + 1
  /\ next_id' = next_id + 1
  /\ UNCHANGED <<pc, containers, source, loading, completed, interrupted, rng,
                 qi, labels, filtered_questions, rejected_questions, thread,
                 runVars, handlerVars, streamVars, error, callVars>>

\* the loop of load_json_to_cosmos has ended
LoadDone ==
  /\ pc = "load"
  /\ loaded = source[loading[1]]
  /\ pc' = AfterBlock(loading[1])
  /\ loading' = <<>>
  /\ UNCHANGED <<database, containers, source, loaded, completed, interrupted,
                 next_id, rng, qi, labels, filtered_questions,
                 rejected_questions, thread, runVars, handlerVars, streamVars,
                 error, callVars>>

\* the test queries that end the script
RunToEnd ==
  /\ pc = "queries"
  /\ pc' = "ended"
  /\ completed' = completed + 1
  /\ UNCHANGED <<database, containers, source, loading, loaded, interrupted,
                 next_id, rng, qi, labels, filtered_questions,
                 rejected_questions, thread, runVars, handlerVars, streamVars,
                 error, callVars>>

\* the script is run again
RunAgain ==
  /\ pc = "ended"
  /\ completed < MaxRuns
  /\ pc' = "produtostecnicos"
  /\ UNCHANGED <<database, ingestVars, rng, qi, labels, filtered_questions,
                 rejected_questions, thread, runVars, handlerVars, streamVars,
                 error, callVars>>

\* the script is stopped before its end, and run again
Interrupt ==
  /\ pc \in ContainerNames \cup {"load", "queries"}
  /\ interrupted < MaxInterrupts
  /\ interrupted' = interrupted + 1
  /\ pc' = "produtostecnicos"
  /\ loading' = <<>>
  /\ UNCHANGED <<database, containers, source, loaded, completed, next_id,
                 rng, qi, labels, filtered_questions, rejected_questions,
                 thread, runVars, handlerVars, streamVars, error, callVars>>

IngestNext ==
  \/ Guard
  \/ LoadItem
  \/ LoadDone
  \/ RunToEnd
  \/ RunAgain
  \/ Interrupt

IngestSpec == IngestInit /\ [][IngestNext]_vars

(***************************************************************************)
(* Properties.                                                             *)
(***************************************************************************)
KnownNames == {COMMON, SCIENTIFIC}

\* the calls of a list whose function name is in the dispatch table
KnownCalls(calls) == SelectSeq(calls, LAMBDA t : t.function.name \in KnownNames)

Ids(calls) == [i \in 1..Len(calls) |-> calls[i].id]

OutputIds(outputs) == [i \in 1..Len(outputs) |-> outputs[i].tool_call_id]

Elems(s) == {s[i] : i \in 1..Len(s)}

Occurrences(s, x) == Cardinality({i \in 1..Len(s) : s[i] = x})

AwaitingOutputs == run_status = "requires_action"

\* C1: in every submitted batch each tool call of the event has exactly one
\* output carrying its id, and the batch has as many outputs as the event has
\* tool calls, whatever the function names of the calls.
C1_OneOutputPerToolCall ==
  batch /= <<>> =>
    /\ Len(batch[1]) = Len(tool_calls)
    /\ \A i \in 1..Len(tool_calls) :
         Cardinality({j \in 1..Len(batch[1]) :
                        batch[1][j].tool_call_id = tool_calls[i].id}) = 1

\* C2: an event whose tool calls all name a dispatch-table function and whose
\* lookups all succeed is answered by one submit_tool_outputs call (the number
\* of submissions equals the number of events once the handler is past the
\* event, and is one less while it is handling it), and the tool_call_id
\* sequence of the batch is the id sequence of the tool calls as received.
C2_OneBatchInReceivedOrder ==
  /\ (pc \in {"run", "done"} /\ ~AwaitingOutputs) => submitted = events
  /\ (pc = "run" /\ AwaitingOutputs) => submitted = events - 1
  /\ (batch /= <<>> /\ KnownCalls(tool_calls) = tool_calls) =>
       OutputIds(batch[1]) = Ids(tool_calls)

\* C2 witness: the batch for the calls t1 (common name) and t2 (scientific
\* name) has been submitted.
C2_Witness ==
  /\ batch /= <<>>
  /\ Len(tool_calls) = 2
  /\ tool_calls[1].function.name = COMMON
  /\ tool_calls[2].function.name = SCIENTIFIC
  /\ Len(batch[1]) = 2

\* C3: once the script has stopped, every 'requires action' event it received
\* has had its batch submitted, whatever the tool calls and the contents of
\* the (reachable) store: the dispatcher is never left in AwaitingOutputs.
C3_EveryEventSubmitted ==
  (database.reachable /\ pc \in {"done", "crashed"}) =>
    (submitted = events /\ ~AwaitingOutputs)

\* C4: a tool call with a function name outside the dispatch table is skipped:
\* the lookups made for an event are exactly those of the dispatch-table calls
\* reached so far, an exception only ever comes from a dispatch-table call, a
\* submitted batch holds in order the ids of the dispatch-table calls and no
\* other id, and a handler past its last call can submit its batch.
C4_UnknownNameSkipped ==
  /\ lookups = Len(KnownCalls(SubSeq(tool_calls, 1, k - 1)))
                 + (IF error /= "none" THEN 1 ELSE 0)
  /\ error /= "none" => tool_calls[k].function.name \in KnownNames
  /\ batch /= <<>> => OutputIds(batch[1]) = Ids(KnownCalls(tool_calls))
  /\ (pc = "run" /\ AwaitingOutputs /\ k > Len(tool_calls)) =>
       ENABLED SubmitToolOutputs

\* C4 witness: a batch was submitted for an event whose first call has an
\* unknown name and whose second call is in the dispatch table.
C4_Witness ==
  /\ batch /= <<>>
  /\ Len(tool_calls) = 2
  /\ tool_calls[1].function.name = UNKNOWN
  /\ tool_calls[2].function.name \in KnownNames
  /\ OutputIds(batch[1]) = <<2>>

\* C7: the calls of an event are resolved in received order (the outputs held
\* are those of the dispatch-table calls before the loop index); a batch is
\* submitted at most once per event and only when every call is resolved; when
\* a lookup fails the exception ends the script and nothing of the event, not
\* even the outputs already computed, is submitted.
C7_NoPartialSubmission ==
  /\ OutputIds(tool_outputs) = Ids(KnownCalls(SubSeq(tool_calls, 1, k - 1)))
  /\ submitted <= events
  /\ batch /= <<>> =>
       /\ batch[1] = tool_outputs
       /\ Len(tool_outputs) = Len(KnownCalls(tool_calls))
  /\ error /= "none" =>
       /\ pc = "crashed"
       /\ batch = <<>>
       /\ submitted = events - 1

\* C7 witness: the second lookup of an event failed after the first one had
\* produced an output.
C7_Witness ==
  /\ error /= "none"
  /\ k = 2
  /\ Len(tool_outputs) = 1
  /\ database.reachable

\* C9: when the classification of a question has been done, every earlier
\* question that was admitted has been answered by a finished assistant run,
\* and at the end there are as many assistant runs as admitted questions.
C9_QuestionsOneAtATime ==
  /\ \A q \in 1..NumQuestions :
       (qi > q + 1 /\ q \in Elems(filtered_questions)) => q \in answered
  /\ pc = "done" => runs = Len(filtered_questions)

\* C10: a classified question is in filtered_questions exactly when the text
\* read back for it is "pesticides" and in rejected_questions otherwise, each
\* classified question is in exactly one of the two lists, and the main thread
\* holds exactly the filtered questions (nothing before the loop has ended).
C10_AdmittedIffPesticides ==
  /\ Len(labels) = qi - 1
  /\ \A q \in 1..Len(labels) :
       /\ q \in Elems(filtered_questions) <=> labels[q] = "pesticides"
       /\ q \in Elems(rejected_questions) <=> labels[q] /= "pesticides"
       /\ Occurrences(filtered_questions, q) + Occurrences(rejected_questions, q) = 1
  /\ Elems(filtered_questions) \cup Elems(rejected_questions) = 1..Len(labels)
  /\ pc = "classify" => thread = <<>>
  /\ pc \in {"run", "done", "crashed"} =>
       /\ Len(labels) = NumQuestions
       /\ thread = filtered_questions

\* C10 witness: the run over the main thread has ended with tool outputs
\* submitted; the first question was labelled "pesticides", the second
\* "Pesticides." and the third "other", and only the first is in the thread.
C10_Witness ==
  /\ pc = "done"
  /\ labels = <<"pesticides", "Pesticides.", "other">>
  /\ thread = <<1>>
  /\ rejected_questions = <<2, 3>>
  /\ submitted >= 1

(***************************************************************************)
(* Properties of the direct calls.                                         *)
(***************************************************************************)
IsLookup(c) == c.fn \in KnownNames

\* the keys a lookup call asks the store for
LookupKeys(c) ==
  {IF c.fn = COMMON THEN Normalize(c.arg.value[i]) ELSE c.arg.value[i] :
     i \in 1..Len(c.arg.value)}

\* the stored formulated products a lookup call matches
MatchSet(c) ==
  LET column == IF c.fn = COMMON THEN "PRAGA_NOME_COMUM"
                ELSE "PRAGA_NOME_CIENTIFICO"
  IN  {i \in 1..Len(database.produtosformulados) :
         \E key \in LookupKeys(c) :
            Like(database.produtosformulados[i][column], key)}

\* C5: a lookup whose match set is not empty returns a list of at most 5
\* brand names, none of them twice.
C5_AtMostFiveDistinctBrands ==
  (ret /= <<>> /\ IsLookup(call[1]) /\ database.reachable
     /\ MatchSet(call[1]) /= {}) =>
    /\ ret[1].ok
    /\ Len(ret[1].value[2]) <= SampleSize
    /\ \A i, j \in 1..Len(ret[1].value[2]) :
         ret[1].value[2][i] = ret[1].value[2][j] => i = j

\* C6: a lookup for a name, or for one or more names, that no stored product
\* matches returns (an empty-result signal) and does not raise.
C6_EmptyMatchReturns ==
  (ret /= <<>> /\ IsLookup(call[1]) /\ database.reachable
     /\ call[1].arg.value /= <<>> /\ MatchSet(call[1]) = {}) =>
    ret[1].ok

\* C8: every multi-value query of a reachable store returns a Result Set for
\* every list of values, and an empty one for the empty list.
C8_EmptyListGivesEmptyResult ==
  (ret /= <<>> /\ call[1].fn \in MultiQueryNames /\ database.reachable) =>
    /\ ret[1].ok
    /\ call[1].arg.value = <<>> => ret[1].value.rows = <<>>

IsStoreQuery(c) == c.fn \in SingleQueryNames \cup MultiQueryNames

\* the stored items a store query's predicate selects for one value
Selected(fn, value) ==
  LET items == IF IsFormulatedQuery(fn) THEN database.produtosformulados
               ELSE database.produtostecnicos
      exact == QueryColumn(fn) \in {"CLASSIFICACAO_TOXICOLOGICA",
                                    "CLASSIFICACAO_AMBIENTAL"}
  IN  {i \in 1..Len(items) :
         IF exact THEN items[i][QueryColumn(fn)] = value
         ELSE Like(items[i][QueryColumn(fn)], value)}

\* C12: the Result Set of a multi-value query has no two rows equal on all
\* attributes.
C12_NoDuplicateRows ==
  (ret /= <<>> /\ call[1].fn \in MultiQueryNames /\ ret[1].ok) =>
    \A i, j \in 1..Len(ret[1].value.rows) :
       ret[1].value.rows[i] = ret[1].value.rows[j] => i = j

\* C12 witness: a multi-value query given the same value twice, or two values
\* that select a common stored item, has returned rows.
C12_Witness ==
  /\ ret /= <<>>
  /\ call[1].fn \in MultiQueryNames
  /\ ret[1].ok
  /\ Len(call[1].arg.value) = 2
  /\ Selected(call[1].fn, call[1].arg.value[1])
       \cap Selected(call[1].fn, call[1].arg.value[2]) /= {}
  /\ Len(ret[1].value.rows) >= 2

\* C13: no row and no column of a non-empty Result Set of a single-value or
\* multi-value query is a storage-internal field.
C13_NoInternalFields ==
  (ret /= <<>> /\ IsStoreQuery(call[1]) /\ ret[1].ok
     /\ ret[1].value.rows /= <<>>) =>
    /\ ret[1].value.columns \cap InternalColumns = {}
    /\ \A i \in 1..Len(ret[1].value.rows) :
         DOMAIN ret[1].value.rows[i] \cap InternalColumns = {}

\* C13 witness: a single-value query has returned rows.
C13_Witness ==
  /\ ret /= <<>>
  /\ call[1].fn \in SingleQueryNames
  /\ ret[1].ok
  /\ Len(ret[1].value.rows) >= 2

\* a name with every upper-case letter replaced by its lower-case letter and
\* every space by a hyphen
Hyphenated(name) ==
  [i \in 1..Len(name) |->
     CASE name[i] = " " -> "-"
       [] name[i] = "F" -> "f"
       [] name[i] = "P" -> "p"
       [] name[i] = "H" -> "h"
       [] OTHER -> name[i]]

\* C14: the common-name lookup asks the store for the lower-cased, hyphenated
\* form of the name (of each name of a list, in list order); the
\* scientific-name lookup asks for the name as given.
C14_KeyPassedToStore ==
  (ret /= <<>> /\ IsLookup(call[1]) /\ database.reachable) =>
    /\ Len(sent) = Len(call[1].arg.value)
    /\ \A i \in 1..Len(sent) :
         /\ sent[i].container = "produtosformulados"
         /\ sent[i].column = (IF call[1].fn = COMMON THEN "PRAGA_NOME_COMUM"
                              ELSE "PRAGA_NOME_CIENTIFICO")
         /\ sent[i].value = (IF call[1].fn = COMMON
                             THEN Hyphenated(call[1].arg.value[i])
                             ELSE call[1].arg.value[i])

\* C14 witness: a common-name lookup has been called with a name that has an
\* upper-case letter and a space, and has sent its query.
C14_Witness ==
  /\ ret /= <<>>
  /\ call[1].fn = COMMON
  /\ sent /= <<>>
  /\ \E i \in 1..Len(call[1].arg.value) :
       /\ "F" \in Elems(call[1].arg.value[i])
       /\ " " \in Elems(call[1].arg.value[i])
       /\ sent[i].value /= call[1].arg.value[i]

\* C16: after a lookup call the caller's pest-name argument is what it was
\* before the call.
C16_ArgumentsUnchanged ==
  (ret /= <<>> /\ IsLookup(call[1])) => after[1] = call[1].arg

Crops == {"soja", "cafe"}

\* the lookup of the dispatch table with the given name
LookupResult(fn, db, crop, arg, seed) ==
  IF fn = COMMON THEN get_pesticides_by_crop_and_common_name(db, crop, arg, seed)
  ELSE get_pesticides_by_crop_and_scientific_name(db, crop, arg, seed)

\* C17: a lookup call and the same call with any other crop, on the same
\* store and generator state, send the same queries and return the same
\* result.
C17_CropIgnored ==
  (ret /= <<>> /\ IsLookup(call[1])) =>
    \A crop \in Crops :
       /\ sent = LookupSent(call[1].fn, database, crop, call[1].arg)
       /\ ret[1] = LookupResult(call[1].fn, database, crop, call[1].arg, rng)

\* C17 witness: a lookup called with the crop cafe has returned brand names.
C17_Witness ==
  /\ ret /= <<>>
  /\ IsLookup(call[1])
  /\ call[1].crop = "cafe"
  /\ ret[1].ok
  /\ sent /= <<>>

\* the rows of the single-value results of a multi-value call, concatenated
\* in list order
RECURSIVE SingleRows(_, _, _)
SingleRows(fn, values, i) ==
  IF i > Len(values) THEN <<>>
  ELSE LET single == CallSingle(SingleOf(fn), database, values[i])
       IN  (IF single.ok THEN single.value.rows ELSE <<>>)
             \o SingleRows(fn, values, i + 1)

\* position of the first occurrence of a row in a sequence of rows
FirstAt(rows, row) ==
  CHOOSE i \in 1..Len(rows) : rows[i] = row /\ \A j \in 1..(i-1) : rows[j] /= row

\* C18: a multi-value query of a reachable store with a non-empty list sends
\* one single-value query per list element in list order; its rows are the
\* rows of the single-value results, each once, in the order of their first
\* occurrence in the concatenation.
C18_ConcatenationOfSingles ==
  (ret /= <<>> /\ call[1].fn \in MultiQueryNames /\ database.reachable
     /\ call[1].arg.value /= <<>>) =>
    LET values == call[1].arg.value
        all == SingleRows(call[1].fn, values, 1)
    IN  /\ ret[1].ok
        /\ Len(sent) = Len(values)
        /\ \A i \in 1..Len(values) :
             sent[i] = QueryText(SingleOf(call[1].fn), values[i])
        /\ Elems(ret[1].value.rows) = Elems(all)
        /\ \A i, j \in 1..Len(ret[1].value.rows) :
             i < j => FirstAt(all, ret[1].value.rows[i])
                        < FirstAt(all, ret[1].value.rows[j])

\* C18 witness: a multi-value query over two values that select different
\* sets of stored items has returned fewer rows than the concatenation of
\* the two single-value results has.
C18_Witness ==
  /\ ret /= <<>>
  /\ call[1].fn \in MultiQueryNames
  /\ ret[1].ok
  /\ Len(call[1].arg.value) = 2
  /\ call[1].arg.value[1] /= call[1].arg.value[2]
  /\ Selected(call[1].fn, call[1].arg.value[1])
       /= Selected(call[1].fn, call[1].arg.value[2])
  /\ Len(ret[1].value.rows)
       < Len(SingleRows(call[1].fn, call[1].arg.value, 1))

\* C11 as stated: every result of a substring query of the formulated
\* products, for one value or for a list of values, has at most 1000 rows.
C11_AtMostLimitRows ==
  (ret /= <<>> /\ IsFormulatedQuery(call[1].fn) /\ ret[1].ok) =>
    Len(ret[1].value.rows) <= QueryLimit

\* C11 amended: a single-value substring query of the formulated products
\* returns at most 1000 rows, and a query over a list of n values returns at
\* most 1000 * n rows.
C11_AtMostLimitRowsPerValue ==
  (ret /= <<>> /\ IsFormulatedQuery(call[1].fn) /\ ret[1].ok) =>
    Len(ret[1].value.rows) <= QueryLimit * Len(call[1].arg.value)

\* C11 witness: a single-value query whose value more than 1000 stored
\* products match has returned 1000 rows.
C11_Witness ==
  /\ ret /= <<>>
  /\ call[1].fn \in SingleQueryNames
  /\ IsFormulatedQuery(call[1].fn)
  /\ Cardinality(Selected(call[1].fn, call[1].arg.value[1])) > QueryLimit
  /\ ret[1].ok
  /\ Len(ret[1].value.rows) = QueryLimit

\* C19: a run that has raised n 'requires action' events has had n batches
\* submitted once the script has stopped (the store being reachable); batch i
\* is submitted for event i before event i + 1 is handled, by the handler of
\* event i, with the run id and the thread of the event; and no handler
\* returns while the run goes on.
C19_EveryPauseServed ==
  /\ (database.reachable /\ pc \in {"done", "crashed"}) => submitted = events
  /\ Len(submissions) = submitted
  /\ events - submitted \in {0, 1}
  /\ \A i \in 1..Len(submissions) :
       /\ submissions[i].event = i
       /\ submissions[i].frame = i
       /\ submissions[i].run_id = runs
       /\ submissions[i].thread_id = "main"
  /\ pc = "run" => frames = events

\* a payload built by the client from an exception: it holds the handler's
\* message with the exception, and is not a response body
ErrorShaped(payload) ==
  \/ /\ payload.type = "set"
     /\ \E e \in RequestException(TRUE) :
          payload.items = {<<"Classify Image Error: ", e>>}
  \/ /\ payload.type = "dict"
     /\ \E e \in RequestException(TRUE) :
          payload.error = <<"Failed to classify pest file: ", e>>

\* the request of an API call was sent (the file to upload could be opened)
Requested == pc = "api" /\ ret /= <<>> /\ call[1].arg.exists

TransportError == network[1].type = "error"

Status == network[1].response.status

SourceFields(item) == [c \in DOMAIN item \ InternalColumns |-> item[c]]

\* each record of each source file is stored once in its container, and no
\* two stored items have the same id
StoredOnce ==
  /\ \A c \in ContainerNames :
       /\ Len(database[c]) = source[c]
       /\ \A i \in 1..source[c] :
            Cardinality({j \in 1..Len(database[c]) :
                           SourceFields(database[c][j]) = JsonRecord(c, i)})
              = Cardinality({h \in 1..source[c] :
                               JsonRecord(c, h) = JsonRecord(c, i)})
  /\ \A c, d \in ContainerNames :
       \A i \in 1..Len(database[c]), j \in 1..Len(database[d]) :
          database[c][i].id = database[d][j].id => (c = d /\ i = j)

\* C20: once the ingestion script has run to its end one or more times, no
\* run having been interrupted, each source record is stored exactly once
\* with an id of its own; and the records of a container that exists and is
\* not being loaded by the run that created it never change, so that later
\* runs load nothing and do not complete an interrupted load.
C20_IngestionIdempotent ==
  /\ [](completed >= 1 /\ interrupted = 0 => StoredOnce)
  /\ [][\A c \in ContainerNames :
          (c \in containers /\ loading /= <<c>>) => database'[c] = database[c]]_vars

\* C20 witness: the script has run to its end twice, with no interruption, on
\* source files of two or more records.
C20_Witness ==
  /\ pc = "ended"
  /\ completed = 2
  /\ interrupted = 0
  /\ \A c \in ContainerNames : source[c] >= 2 /\ Len(database[c]) >= 2

====
